---- MODULE Spec2Model ----
(***************************************************************************)
(* Stay Dry HCMC: the environmental-risk derivation pipeline of the two    *)
(* app variants (src/service-worker.js lines 64-670, the earlier variant   *)
(* with flood risk and traffic; src/unnamed/part_001, the later variant    *)
(* with UV and AQI) and the handlers that drive it.                        *)
(*                                                                         *)
(* Units.  Rain is held in tenths of a millimetre, soil moisture and canal *)
(* level in thousandths, coordinates in hundredths of a degree, average    *)
(* speed in tenths of km/h.  Rain inputs are multiples of 0.2 mm, so that  *)
(* 1.2 + rain*0.05 has at most two decimals and toFixed(2) does not round. *)
(* A JavaScript value that may be undefined is a sequence: <<>> is         *)
(* undefined, <<n>> is the number n.                                       *)
(***************************************************************************)
EXTENDS Integers, Sequences, FiniteSets, TLC

(* ------------------------------ bounds --------------------------------- *)

\* number of lookups (search submits and suggestion clicks) in a behaviour
MaxLookups == 2
\* number of suggestion requests in flight at a time
MaxSugReqs == 1
\* the local hours the later variant's clock is drawn from (0..MaxHour)
MaxHour == 1

(* -------------------------- JavaScript values -------------------------- *)

Undefined == <<>>
Num(n) == <<n>>

\* x || 0 on a number or undefined
OrZero(x) == IF x = Undefined \/ x = Num(0) THEN 0 ELSE x[1]

\* x || d on a number or undefined
OrDefault(x, d) == IF x = Undefined \/ x = Num(0) THEN d ELSE x[1]

\* a property holding an array, or missing from its object
Absent == [present |-> FALSE, items |-> <<>>]
Arr(s) == [present |-> TRUE, items |-> s]

\* arr[i], zero-based; out of range gives undefined
Index(arr, i) == IF i + 1 <= Len(arr.items) THEN arr.items[i + 1] ELSE Undefined

\* arr.slice(0, n)
Slice(s, n) == IF Len(s) <= n THEN s ELSE SubSeq(s, 1, n)

Min(a, b) == IF a <= b THEN a ELSE b

(* --------------------------- tide formatting --------------------------- *)

Clock(h, m, ap) == [h |-> h, m |-> m, ap |-> ap]

\* new Date(iso).toLocaleTimeString('en-US', {hour:'2-digit', minute:'2-digit', hour12:true})
\* an ISO timestamp is [day, min]: the day and the minute of that day
formatTime(iso) ==
  LET h24 == iso.min \div 60
  IN  Clock(IF h24 % 12 = 0 THEN 12 ELSE h24 % 12, iso.min % 60,
            IF h24 < 12 THEN "AM" ELSE "PM")

\* new Date('1970/01/01 ' + time), in minutes since that midnight
ParseClock(t) == ((t.h % 12) + (IF t.ap = "PM" THEN 12 ELSE 0)) * 60 + t.m

Tide(type, time, height) == [type |-> type, time |-> time, height |-> height]

\* tideData.sort((a, b) => parse(a.time) - parse(b.time)): a stable sort
RECURSIVE InsertTide(_, _)
InsertTide(sorted, e) ==
  IF sorted = <<>> THEN <<e>>
  ELSE IF ParseClock(e.time) < ParseClock(Head(sorted).time)
       THEN <<e>> \o sorted
       ELSE <<Head(sorted)>> \o InsertTide(Tail(sorted), e)

RECURSIVE SortTides(_)
SortTides(s) ==
  IF s = <<>> THEN <<>>
  ELSE InsertTide(SortTides(SubSeq(s, 1, Len(s) - 1)), s[Len(s)])

generateTideData ==
  << Tide("High", Clock(4, 30, "AM"), "3.8m"),
     Tide("Low", Clock(10, 15, "AM"), "1.2m"),
     Tide("High", Clock(5, 45, "PM"), "4.1m"),
     Tide("Low", Clock(11, 30, "PM"), "0.9m") >>

generateTideFallback ==
  << Tide("High", Clock(4, 30, "AM"), "3.2m"),
     Tide("Low", Clock(10, 15, "AM"), "1.2m"),
     Tide("High", Clock(5, 45, "PM"), "3.8m"),
     Tide("Low", Clock(11, 30, "PM"), "0.9m") >>

FallbackTides(v) == IF v = "earlier" THEN generateTideData ELSE generateTideFallback

\* a plausible slip: the lows pushed before the highs
MarineTidesLowsFirst(highs, lows) ==
  SortTides([i \in 1..Len(lows) |-> Tide("Low", formatTime(lows[i]), "1.1m")]
            \o [i \in 1..Len(highs) |-> Tide("High", formatTime(highs[i]), "3.5m")])

\* highs.forEach(push High) ; lows.forEach(push Low) ; sort
MarineTides(highs, lows) ==
  SortTides([i \in 1..Len(highs) |-> Tide("High", formatTime(highs[i]), "3.5m")]
            \o [i \in 1..Len(lows) |-> Tide("Low", formatTime(lows[i]), "1.1m")])

\* the value marineData takes: null, or the parsed body
NullMarine == [isNull |-> TRUE, hasDaily |-> FALSE, tide_high |-> Absent, tide_low |-> Absent]

\* marineData.daily.tide_high.slice throws a TypeError when the array is missing
TidesThrow(marineData) ==
  /\ ~marineData.isNull
  /\ marineData.hasDaily
  /\ (~marineData.tide_high.present \/ ~marineData.tide_low.present)

\* a plausible slip: the fallback taken on a null marineData only
TidesEarlierNoDailyCheck(marineData) ==
  IF ~marineData.isNull
  THEN MarineTides(Slice(marineData.tide_high.items, 2), Slice(marineData.tide_low.items, 2))
  ELSE generateTideData

\* the "Tides" block of fetchEnvironmentalData, earlier variant
TidesEarlier(marineData) ==
  IF ~marineData.isNull /\ marineData.hasDaily
  THEN MarineTides(Slice(marineData.tide_high.items, 2), Slice(marineData.tide_low.items, 2))
  ELSE generateTideData

\* the tides block of fetchEnvironmentalData, later variant
TidesLater(marineData) ==
  IF ~marineData.isNull /\ marineData.hasDaily
  THEN LET highs == Slice(marineData.tide_high.items, 2)
           lows == Slice(marineData.tide_low.items, 2)
       IN  IF Len(highs) > 0 /\ Len(lows) > 0
           THEN MarineTides(highs, lows)
           ELSE generateTideFallback
  ELSE generateTideFallback

(* ------------------------------ flood risk ----------------------------- *)

\* canalLevel.toFixed(2): thousandths to a two-decimal numeral
ToFixed2(x) ==
  LET h == (x + 5) \div 10
  IN  [int |-> h \div 100, frac |-> h % 100]

\* canalLevel = 1.2 + currentRain * 0.05, in thousandths
CanalLevel(currentRain) == 1200 + currentRain * 5

\* a plausible slip: the two canal bonuses as an if / else-if ladder
FloodScoreElseIf(currentRain, recentSoilMoisture) ==
  LET canalLevel == CanalLevel(currentRain)
  IN  (IF recentSoilMoisture > 350 THEN 15 ELSE 0)
      + (IF recentSoilMoisture > 450 THEN 15 ELSE 0)
      + (IF currentRain > 50 THEN 10 ELSE 0)
      + (IF currentRain > 150 THEN 10 ELSE 0)
      + (IF currentRain > 300 THEN 10 ELSE 0)
      + (IF canalLevel > 2000 THEN 25 ELSE IF canalLevel > 1500 THEN 15 ELSE 0)

\* a plausible slip: `= 10` for `+= 10` in the heaviest rain band
FloodScoreResets(currentRain, recentSoilMoisture) ==
  LET canalLevel == CanalLevel(currentRain)
      s2 == (IF recentSoilMoisture > 350 THEN 15 ELSE 0)
            + (IF recentSoilMoisture > 450 THEN 15 ELSE 0)
            + (IF currentRain > 50 THEN 10 ELSE 0)
            + (IF currentRain > 150 THEN 10 ELSE 0)
      s5 == IF currentRain > 300 THEN 10 ELSE s2
  IN  s5 + (IF canalLevel > 1500 THEN 15 ELSE 0) + (IF canalLevel > 2000 THEN 25 ELSE 0)

\* a plausible slip: >= for > in the first soil-moisture test
FloodScoreSoilGe(currentRain, recentSoilMoisture) ==
  LET canalLevel == CanalLevel(currentRain)
  IN  (IF recentSoilMoisture >= 350 THEN 15 ELSE 0)
      + (IF recentSoilMoisture > 450 THEN 15 ELSE 0)
      + (IF currentRain > 50 THEN 10 ELSE 0)
      + (IF currentRain > 150 THEN 10 ELSE 0)
      + (IF currentRain > 300 THEN 10 ELSE 0)
      + (IF canalLevel > 1500 THEN 15 ELSE 0)
      + (IF canalLevel > 2000 THEN 25 ELSE 0)

\* floodRiskScore: rain in tenths of mm, soil moisture in thousandths
FloodScore(currentRain, recentSoilMoisture) ==
  LET canalLevel == CanalLevel(currentRain)
      warningThreshold == 2000
      s1 == IF recentSoilMoisture > 350 THEN 15 ELSE 0
      s2 == s1 + (IF recentSoilMoisture > 450 THEN 15 ELSE 0)
      s3 == s2 + (IF currentRain > 50 THEN 10 ELSE 0)
      s4 == s3 + (IF currentRain > 150 THEN 10 ELSE 0)
      s5 == s4 + (IF currentRain > 300 THEN 10 ELSE 0)
      s6 == s5 + (IF canalLevel > 1500 THEN 15 ELSE 0)
  IN  s6 + (IF canalLevel > warningThreshold THEN 25 ELSE 0)

\* a plausible slip: >= for > in the level ladder
FloodLevelGe(floodRiskScore) ==
  IF floodRiskScore >= 80 THEN "Critical"
  ELSE IF floodRiskScore >= 50 THEN "High"
  ELSE IF floodRiskScore >= 30 THEN "Moderate"
  ELSE "Low"

\* floodRiskLevel
FloodLevel(floodRiskScore) ==
  IF floodRiskScore > 80 THEN "Critical"
  ELSE IF floodRiskScore > 50 THEN "High"
  ELSE IF floodRiskScore > 30 THEN "Moderate"
  ELSE "Low"

\* the flood object of the view-model
FloodRisk(currentRain, recentSoilMoisture) ==
  LET floodRiskScore == FloodScore(currentRain, recentSoilMoisture)
  IN  [level |-> FloodLevel(floodRiskScore), score |-> floodRiskScore,
       soilMoisture |-> recentSoilMoisture,
       canalLevel |-> ToFixed2(CanalLevel(currentRain)),
       warningThreshold |-> 2000]

(* ------------------------------- traffic ------------------------------- *)

\* a plausible slip: the base congestion without its floor of 10
generateTrafficReportNoBase(rain, draw) ==
  LET totalCongestion == Min(draw + (IF rain > 0 THEN 20 ELSE 0), 100)
  IN  [congestion |-> totalCongestion,
       status |-> IF totalCongestion > 70 THEN "Heavy"
                  ELSE IF totalCongestion > 40 THEN "Moderate" ELSE "Clear",
       avgSpeed |-> 500 - totalCongestion * 4,
       incidents |-> IF totalCongestion > 60 THEN 1 ELSE 0]

\* a plausible slip: a rain factor of 40 in place of 20
generateTrafficReportRainFactor(rain, draw) ==
  LET baseCongestion == draw + 10
      rainFactor == IF rain > 0 THEN 40 ELSE 0
      totalCongestion == Min(baseCongestion + rainFactor, 100)
      status == IF totalCongestion > 70 THEN "Heavy"
                ELSE IF totalCongestion > 40 THEN "Moderate"
                ELSE "Clear"
  IN  [congestion |-> totalCongestion, status |-> status,
       avgSpeed |-> 500 - totalCongestion * 4,
       incidents |-> IF totalCongestion > 60 THEN 1 ELSE 0]

\* draw is Math.floor(Math.random() * 30), rain in tenths of mm
generateTrafficReport(rain, draw) ==
  LET baseCongestion == draw + 10
      rainFactor == IF rain > 0 THEN 20 ELSE 0
      totalCongestion == Min(baseCongestion + rainFactor, 100)
      status == IF totalCongestion > 70 THEN "Heavy"
                ELSE IF totalCongestion > 40 THEN "Moderate"
                ELSE "Clear"
  IN  [congestion |-> totalCongestion, status |-> status,
       avgSpeed |-> 500 - totalCongestion * 4,
       incidents |-> IF totalCongestion > 60 THEN 1 ELSE 0]

(* -------------------------------- news --------------------------------- *)

News(type, url) == [type |-> type, url |-> url]

\* v > n on a number or undefined (undefined > n is false)
Gt(v, n) == v # Undefined /\ v[1] > n

\* a plausible slip: the flood-control alert pushed for one level only
generateNewsUpdatesEarlierCriticalOnly(riskLevel, rain, nextProb) ==
  << News("info", "https://giaothong.hochiminhcity.gov.vn/") >>
  \o (IF riskLevel = "Critical"
      THEN << News("alert", "https://phongchongthientai.hochiminhcity.gov.vn/") >> ELSE <<>>)
  \o (IF rain > 100 THEN << News("warning", "https://nchmf.gov.vn/") >> ELSE <<>>)

\* earlier variant; the rain advisory is pushed on rain > 10 only
generateNewsUpdatesEarlier(riskLevel, rain, nextProb) ==
  << News("info", "https://giaothong.hochiminhcity.gov.vn/") >>
  \o (IF riskLevel = "High" \/ riskLevel = "Critical"
      THEN << News("alert", "https://phongchongthientai.hochiminhcity.gov.vn/") >>
      ELSE <<>>)
  \o (IF rain > 100 THEN << News("warning", "https://nchmf.gov.vn/") >> ELSE <<>>)

\* later variant
generateNewsUpdatesLater(rain, nextProb) ==
  << News("traffic-button", "https://giaothong.hochiminhcity.gov.vn/") >>
  \o (IF rain > 100 \/ Gt(nextProb, 60)
      THEN << News("warning", "https://nchmf.gov.vn/") >>
      ELSE << News("info", "https://nchmf.gov.vn/") >>)

(* ---------------------------- the view-model --------------------------- *)

\* weatherData after weatherRes.json(): the fields the pipeline reads
Forecast(hasCurrent, rain, aqi, hasHourly, soil, prob, uv, precip) ==
  [hasCurrent |-> hasCurrent, rain |-> rain, us_aqi |-> aqi, hasHourly |-> hasHourly,
   soil_moisture_0_to_1cm |-> soil, precipitation_probability |-> prob,
   uv_index |-> uv, precipitation |-> precip,
   temperature_2m |-> Num(310), apparent_temperature |-> Num(360),
   relative_humidity_2m |-> Num(80), wind_speed_10m |-> Num(120), weather_code |-> Num(61)]

\* the fields of `current` that setData copies as they are
PassedThrough ==
  { "temperature_2m", "apparent_temperature", "relative_humidity_2m", "wind_speed_10m",
    "weather_code" }

\* the body w without the given fields of `current`
Missing(w, fields) == [f \in DOMAIN w |-> IF f \in fields THEN Undefined ELSE w[f]]

Marine(hasDaily, highs, lows) ==
  [isNull |-> FALSE, hasDaily |-> hasDaily, tide_high |-> highs, tide_low |-> lows]

\* the property reads of lines 318-323 that throw a TypeError
NormalizeThrowsEarlier(w) ==
  \/ ~w.hasHourly
  \/ ~w.soil_moisture_0_to_1cm.present
  \/ ~w.hasCurrent

\* the property reads of lines 211-219 (later variant) that throw a TypeError
NormalizeThrowsLater(w) ==
  \/ ~w.hasCurrent
  \/ ~w.hasHourly
  \/ ~w.uv_index.present

\* a plausible slip: the array indexed without the presence test
NextHourNoDefault(arr, i) == Index(arr, i)

\* hourly.precipitation_probability ? hourly.precipitation_probability[i] : 0
NextHour(arr, i) == IF arr.present THEN Index(arr, i) ELSE Num(0)

\* the object passed to setData, earlier variant (lines 318-384)
ViewModelEarlier(lat, lng, formattedAddress, w, marineData, draw) ==
  LET recentSoilMoisture == OrZero(Index(w.soil_moisture_0_to_1cm, 0))
      currentRain == OrZero(w.rain)
      nextHourRainProb == NextHour(w.precipitation_probability, 1)
      flood == FloodRisk(currentRain, recentSoilMoisture)
  IN  [location |-> formattedAddress,
       coords |-> [lat |-> lat, lng |-> lng],
       weather |-> [temp |-> w.temperature_2m, feelsLike |-> w.apparent_temperature,
                    humidity |-> w.relative_humidity_2m,
                    rain |-> currentRain, nextHourProb |-> nextHourRainProb,
                    nextHourAmount |-> Undefined, uv |-> Undefined, aqi |-> Undefined,
                    wind |-> w.wind_speed_10m, code |-> w.weather_code],
       flood |-> << flood >>,
       traffic |-> << generateTrafficReport(currentRain, draw) >>,
       tides |-> TidesEarlier(marineData),
       news |-> generateNewsUpdatesEarlier(flood.level, currentRain, nextHourRainProb)]

\* the object passed to setData, later variant (part_001 lines 211-256)
ViewModelLater(lat, lng, formattedAddress, w, marineData, currentHour) ==
  LET aqi == OrDefault(w.us_aqi, 50)
      uvIndex == OrZero(Index(w.uv_index, currentHour))
      currentRain == OrZero(w.rain)
      nextHourRainProb == NextHour(w.precipitation_probability, currentHour + 1)
      nextHourRainAmount == NextHour(w.precipitation, currentHour + 1)
  IN  [location |-> formattedAddress,
       coords |-> [lat |-> lat, lng |-> lng],
       weather |-> [temp |-> w.temperature_2m, feelsLike |-> w.apparent_temperature,
                    humidity |-> w.relative_humidity_2m,
                    rain |-> currentRain, nextHourProb |-> nextHourRainProb,
                    nextHourAmount |-> nextHourRainAmount, uv |-> Num(uvIndex),
                    aqi |-> Num(aqi), wind |-> Undefined, code |-> w.weather_code],
       flood |-> <<>>,
       traffic |-> <<>>,
       tides |-> TidesLater(marineData),
       news |-> generateNewsUpdatesLater(currentRain, nextHourRainProb)]

(* ------------------------------ geocoding ------------------------------ *)

\* HCMC_BOUNDS, in hundredths of a degree
HCMC_BOUNDS == << <<1035, 10630>>, <<1116, 10702>> >>

\* the bounding-box test of handleSearch and handleSuggestionClick (earlier variant)
OutsideBounds(lat, lon) ==
  \/ lat < HCMC_BOUNDS[1][1] \/ lat > HCMC_BOUNDS[2][1]
  \/ lon < HCMC_BOUNDS[1][2] \/ lon > HCMC_BOUNDS[2][2]

\* the address substructure of a geocoder result; "" is a missing field
AddrObj(road, ward, quarter, district, city) ==
  [road |-> road, ward |-> ward, quarter |-> quarter, district |-> district, city |-> city]

\* a || b on strings
OrStr(a, b) == IF a # "" THEN a ELSE b

\* wards whose name already contains the prefix
PrefixedWards == {"Phuong 2"}

\* formatAddress; the two variants differ in the priority of quarter and ward
formatAddress(v, addrObj) ==
  LET street == addrObj.road
      ward == IF v = "earlier" THEN OrStr(addrObj.quarter, addrObj.ward)
              ELSE OrStr(addrObj.ward, addrObj.quarter)
      district == addrObj.district
      wardPart == IF ward \in PrefixedWards THEN ward ELSE "Phuong " \o ward
      p1 == IF street # "" THEN <<street>> ELSE <<>>
      p2 == IF ward # "" THEN Append(p1, wardPart) ELSE p1
      parts == IF district # "" THEN Append(p2, district) ELSE p2
  IN  IF Len(parts) = 0 THEN OrStr(addrObj.city, "Ho Chi Minh City")
      ELSE IF Len(parts) = 1 THEN parts[1]
      ELSE IF Len(parts) = 2 THEN parts[1] \o ", " \o parts[2]
      ELSE parts[1] \o ", " \o parts[2] \o ", " \o parts[3]

Place(lat, lon, addrObj) ==
  [lat |-> lat, lon |-> lon, address |-> addrObj, formatted_display |-> ""]

\* geocoder results the model draws from: two inside the box (one on its
\* corner), one outside it but inside the viewbox of the query (lat 10.3..11.2),
\* one with nothing but a city
PlaceCentre == Place(1078, 10670, AddrObj("Le Loi", "Ben Nghe", "", "Quan 1", ""))
PlaceCorner == Place(1035, 10630, AddrObj("", "Phuong 2", "Tan Hoa", "", ""))
PlaceNorth == Place(1118, 10670, AddrObj("Vo Van Kiet", "", "", "Cu Chi", ""))
PlaceCity == Place(1078, 10671, AddrObj("", "", "", "", ""))

GeoResults == { <<>>, <<PlaceCentre>>, <<PlaceCorner, PlaceCentre>>, <<PlaceNorth>> }

SuggestResults ==
  { <<>>, <<PlaceCentre, PlaceNorth>>, <<PlaceCorner, PlaceCity, PlaceCorner>> }

\* the values typed into the search box
Typed == {" ", "le", "le loi"}

\* !value.trim()
Blank(value) == value = "" \/ value = " "

\* the uniqueResults loop of the later variant's suggestion callback
RECURSIVE UniqueResults(_, _)
UniqueResults(rawResults, seenAddresses) ==
  IF rawResults = <<>> THEN <<>>
  ELSE LET item == Head(rawResults)
           fmt == formatAddress("later", item.address)
       IN  IF fmt # "Ho Chi Minh City" /\ fmt \notin seenAddresses
           THEN <<[item EXCEPT !.formatted_display = fmt]>>
                \o UniqueResults(Tail(rawResults), seenAddresses \cup {fmt})
           ELSE UniqueResults(Tail(rawResults), seenAddresses)

(* ------------------------- the upstream responses ---------------------- *)

\* ISO timestamps of the marine response
Iso(day, min) == [day |-> day, min |-> min]

TideHighs == { Absent, Arr(<<>>), Arr(<<Iso(1, 1005), Iso(2, 15), Iso(2, 700)>>) }
TideLows == { Absent, Arr(<<>>), Arr(<<Iso(1, 615)>>), Arr(<<Iso(1, 1380), Iso(1, 15), Iso(2, 30)>>) }

MarineBodies ==
  { Marine(FALSE, Absent, Absent) }
  \cup { Marine(TRUE, h, l) : h \in TideHighs, l \in TideLows }

\* rain in tenths of a millimetre
RainSample == { Undefined, Num(0), Num(100), Num(120), Num(400) }
ProbArrays == { Absent, Arr(<<>>), Arr(<<Num(10), Num(70)>>), Arr(<<Num(70), Num(60)>>) }

ForecastBodiesEarlier ==
  { Forecast(FALSE, Undefined, Undefined, TRUE, Arr(<<Num(500)>>), Absent, Absent, Absent),
    Forecast(TRUE, Num(0), Undefined, FALSE, Absent, Absent, Absent, Absent) }
  \cup { Forecast(TRUE, r, Undefined, TRUE, s, p, Absent, Absent) :
           r \in RainSample, s \in { Absent, Arr(<<>>), Arr(<<Num(500)>>) }, p \in ProbArrays }

ForecastBodiesLater ==
  { Forecast(FALSE, Undefined, Undefined, TRUE, Absent, Absent, Arr(<<Num(3)>>), Absent),
    Forecast(TRUE, Num(0), Undefined, FALSE, Absent, Absent, Absent, Absent) }
  \cup { Forecast(TRUE, r, a, TRUE, Absent, p, u, p) :
           r \in RainSample, a \in { Undefined, Num(120) },
           u \in { Absent, Arr(<<Num(9)>>) }, p \in ProbArrays }

\* bodies in which `current` lacks some or all of the fields passed through
SparseBodies(v) ==
  LET full == IF v = "earlier"
              THEN Forecast(TRUE, Num(0), Undefined, TRUE, Arr(<<Num(500)>>),
                            Arr(<<Num(10), Num(70)>>), Absent, Absent)
              ELSE Forecast(TRUE, Num(0), Num(120), TRUE, Absent, Arr(<<Num(10), Num(20), Num(30)>>),
                            Arr(<<Num(3), Num(9)>>), Arr(<<Num(0), Num(5), Num(0)>>))
  IN  { Missing(full, fields) : fields \in { {"temperature_2m"}, {"weather_code"}, PassedThrough } }

ForecastBodies(v) ==
  (IF v = "earlier" THEN ForecastBodiesEarlier ELSE ForecastBodiesLater) \cup SparseBodies(v)

\* Math.floor(Math.random() * 30) as drawn in the application's behaviours
DrawSample == {0, 29}

Hours == 0..MaxHour

(* ------------------------------- state --------------------------------- *)

VARIABLES
  variant,          \* "earlier" (src/service-worker.js) or "later" (part_001)
  address,          \* useState(''): the text of the search box
  suggestions,      \* useState([])
  showSuggestions,  \* useState(false)
  loading,          \* useState(false)
  error,            \* useState(null): <<>> is null, <<msg>> a message
  data,             \* useState(null): <<>> is null, <<vm>> a view-model
  lookups,          \* the invocations of handleSearch / handleSuggestionClick
  started,          \* how many of them have been started
  timer,            \* the pending timeouts of handleInputChange, oldest first;
                    \* `current` marks the one debounceTimerRef.current refers to
  sugReqs,          \* suggestion requests in flight, by the value they query
  writes,           \* history: the calls of setData in order, each with its
                    \* lookup and the place the lookup was made for
  sw,               \* the service worker: its script, phase, caches and network
  map,              \* the Leaflet map: mapInstance, its layers, markerRef, circleRef,
                    \* isDarkMode, isPinMode
  probe             \* input and result of a function evaluated on its own

vars == << variant, address, suggestions, showSuggestions, loading, error, data,
           lookups, started, timer, sugReqs, writes, sw, map, probe >>

ui == << address, suggestions, showSuggestions, timer, sugReqs >>

Lookups == 1..MaxLookups

\* a request is "unsent", "pending", or settled as "ok" (2xx), "bad" (non-2xx)
\* or "rejected" (network failure)
Settled(r) == r \in {"ok", "bad", "rejected"}

\* `alone` is history: whether no other lookup was in flight when this one
\* was started
IdleLookup ==
  [pc |-> "idle", lat |-> 0, lng |-> 0, addr |-> "",
   weatherRes |-> "unsent", marineRes |-> "unsent", outcome |-> "none", wrote |-> FALSE,
   alone |-> TRUE]

\* a lookup between its start and the end of its handler
InFlight(l) == lookups[l].pc \in {"geo", "weather", "marine"}

NoneInFlight == \A l \in Lookups : ~InFlight(l)

NoProbe == [fn |-> "none"]

\* no service worker registered
NoWorker == [pc |-> "none"]

\* the map before Leaflet has loaded: mapInstance null, both refs null, light
\* theme, pin mode off.  `stale` says that a dependency of the map-update
\* effect has changed since it last ran, `runs` counts its runs that drew, and
\* `clicked` is the last point clicked on the map in pin mode
NoMap ==
  [instance |-> FALSE, layers |-> {}, markerRef |-> <<>>, circleRef |-> <<>>,
   isDarkMode |-> FALSE, isPinMode |-> FALSE, stale |-> FALSE, runs |-> 0, clicked |-> <<>>]

\* the application as constructed, in either variant
AppInit ==
  /\ variant \in {"earlier", "later"}
  /\ address = ""
  /\ suggestions = <<>>
  /\ showSuggestions = FALSE
  /\ loading = FALSE
  /\ error = <<>>
  /\ data = <<>>
  /\ lookups = [l \in Lookups |-> IdleLookup]
  /\ started = 0
  /\ timer = <<>>
  /\ sugReqs = <<>>
  /\ writes = <<>>
  /\ map = NoMap

Init ==
  /\ AppInit
  /\ sw = NoWorker
  /\ probe = NoProbe

(* ----------------------------- the search box -------------------------- *)

\* a timeout set by handleInputChange for the value typed
Timeout(value, current) == [value |-> value, current |-> current]

\* clearTimeout(debounceTimerRef.current): the timeout the ref refers to is
\* dropped if it is still pending
ClearCurrent(timers) == SelectSeq(timers, LAMBDA t : ~t.current)

\* a plausible slip: the new timeout set without clearing the previous one
handleInputChangeNoClear(value) ==
  /\ address' = value
  /\ IF Blank(value)
     THEN /\ timer' = timer
          /\ suggestions' = <<>>
          /\ showSuggestions' = FALSE
     ELSE /\ timer' = Append([i \in 1..Len(timer) |-> Timeout(timer[i].value, FALSE)],
                             Timeout(value, TRUE))
          /\ UNCHANGED << suggestions, showSuggestions >>
  /\ UNCHANGED << variant, sw, map, writes, loading, error, data, lookups, started, sugReqs, probe >>

\* handleInputChange: one keystroke leaving `value` in the box
handleInputChange(value) ==
  /\ address' = value
  /\ IF Blank(value)
     THEN /\ timer' = ClearCurrent(timer)
          /\ suggestions' = <<>>
          /\ showSuggestions' = FALSE
     ELSE /\ timer' = Append(ClearCurrent(timer), Timeout(value, TRUE))
          /\ UNCHANGED << suggestions, showSuggestions >>
  /\ UNCHANGED << variant, sw, map, writes, loading, error, data, lookups, started, sugReqs, probe >>

\* the setTimeout callback, 500 ms after it was set: issues the request
DebounceFire ==
  /\ timer # <<>>
  /\ Len(sugReqs) < MaxSugReqs
  /\ sugReqs' = Append(sugReqs, Head(timer).value)
  /\ timer' = Tail(timer)
  /\ UNCHANGED << variant, sw, map, writes, address, suggestions, showSuggestions, loading, error,
                  data, lookups, started, probe >>

RemoveAt(s, i) == SubSeq(s, 1, i - 1) \o SubSeq(s, i + 1, Len(s))

\* the rest of the callback: the suggestion request i settles
SuggestSettle(i, outcome, results) ==
  /\ i \in 1..Len(sugReqs)
  /\ sugReqs' = RemoveAt(sugReqs, i)
  /\ IF outcome = "ok"
     THEN /\ suggestions' = IF variant = "earlier" THEN results
                            ELSE Slice(UniqueResults(results, {}), 5)
          /\ showSuggestions' = TRUE
     ELSE UNCHANGED << suggestions, showSuggestions >>
  /\ UNCHANGED << variant, sw, map, writes, address, loading, error, data, lookups, started, timer,
                  probe >>

(* ------------------------------ the lookups ---------------------------- *)

\* the call of setData by lookup l, whose locals are lk
Write(l, lk) == [lookup |-> l, addr |-> lk.addr, lat |-> lk.lat, lng |-> lk.lng]

\* a plausible slip: a catch block that clears loading but records no message
FailNoError(l, lk, msg) ==
  /\ lookups' = [lookups EXCEPT ![l] =
                   [lk EXCEPT !.pc = "done", !.outcome = "error", !.lat = 0, !.lng = 0,
                              !.addr = ""]]
  /\ error' = error
  /\ loading' = FALSE

\* a plausible slip: a catch block that records the message and leaves loading
\* as it is
FailKeepsLoading(l, lk, msg) ==
  /\ lookups' = [lookups EXCEPT ![l] =
                   [lk EXCEPT !.pc = "done", !.outcome = "error", !.lat = 0, !.lng = 0,
                              !.addr = ""]]
  /\ error' = <<msg>>
  /\ loading' = loading

\* the catch block of handleSearch / handleSuggestionClick, after the finally
\* block of fetchEnvironmentalData when the throw came from there
Fail(l, lk, msg) ==
  /\ lookups' = [lookups EXCEPT ![l] =
                   [lk EXCEPT !.pc = "done", !.outcome = "error", !.lat = 0, !.lng = 0,
                              !.addr = ""]]
  /\ error' = <<msg>>
  /\ loading' = FALSE

\* fetchEnvironmentalData up to its first await: the forecast request goes out
CallFetch(l, lk, lat, lng, formattedAddress) ==
  lookups' = [lookups EXCEPT ![l] =
                [lk EXCEPT !.pc = "weather", !.lat = lat, !.lng = lng,
                           !.addr = formattedAddress, !.weatherRes = "pending"]]

\* handleSearch up to the geocoder request; the submit button is disabled
\* while loading
handleSearch ==
  /\ started < MaxLookups
  /\ ~loading
  /\ ~Blank(address)
  /\ started' = started + 1
  /\ lookups' = [lookups EXCEPT ![started + 1] =
                   [IdleLookup EXCEPT !.pc = "geo", !.alone = NoneInFlight]]
  /\ loading' = TRUE
  /\ IF variant = "earlier"
     THEN showSuggestions' = FALSE /\ error' = <<>>
     ELSE UNCHANGED << showSuggestions, error >>
  /\ UNCHANGED << variant, sw, map, writes, address, suggestions, data, timer, sugReqs, probe >>

\* handleSearch after the geocoder request settles
GeocodeSettle(l, outcome, parses, geoData) ==
  /\ lookups[l].pc = "geo"
  /\ LET lk == lookups[l]
     IN  IF outcome = "rejected" THEN Fail(l, lk, "Failed to fetch")
         ELSE IF variant = "earlier" /\ outcome = "bad" THEN Fail(l, lk, "Geocoding unavailable")
         ELSE IF ~parses THEN Fail(l, lk, "Unexpected token")
         ELSE IF Len(geoData) = 0
              THEN Fail(l, lk, IF variant = "earlier" THEN "Address not found in HCMC."
                               ELSE "Not found")
         ELSE LET loc == geoData[1]
              IN  IF variant = "earlier" /\ OutsideBounds(loc.lat, loc.lon)
                  THEN Fail(l, lk, "Location outside HCMC.")
                  ELSE /\ CallFetch(l, lk, loc.lat, loc.lon, formatAddress(variant, loc.address))
                       /\ UNCHANGED << error, loading >>
  /\ UNCHANGED << variant, sw, map, writes, data, started, ui, probe >>

\* handleSuggestionClick on an entry of the open dropdown
handleSuggestionClick(s) ==
  /\ started < MaxLookups
  /\ showSuggestions
  /\ \E i \in 1..Len(suggestions) : suggestions[i] = s
  /\ started' = started + 1
  /\ LET formatted == IF variant = "earlier" THEN formatAddress(variant, s.address)
                      ELSE OrStr(s.formatted_display, formatAddress(variant, s.address))
         lk == [IdleLookup EXCEPT !.alone = NoneInFlight]
     IN  /\ address' = formatted
         /\ showSuggestions' = FALSE
         /\ suggestions' = IF variant = "earlier" THEN <<>> ELSE suggestions
         /\ IF variant = "earlier" /\ OutsideBounds(s.lat, s.lon)
            THEN Fail(started + 1, lk, "Location outside HCMC.")
            ELSE /\ CallFetch(started + 1, lk, s.lat, s.lon, formatted)
                 /\ loading' = TRUE
                 /\ error' = <<>>
  /\ UNCHANGED << variant, sw, map, writes, data, timer, sugReqs, probe >>

(* ------------------------ fetchEnvironmentalData ----------------------- *)

Threw(cause, msg) == [cause |-> cause, msg |-> msg, vm |-> <<>>]

\* fetchEnvironmentalData from the point where the marine request settles to
\* its setData or its throw.  weatherRes is "ok" or "bad"; marineRes is "ok",
\* "bad" or "rejected"; w and m are the bodies that json() yields when it
\* parses.  cause is "none" when setData is reached with view-model vm.
FetchOutcome(v, lat, lng, formattedAddress, weatherRes, marineRes, wParses, w, mParses, m, currentHour, draw) ==
  IF marineRes = "rejected" THEN Threw("marine-rejected", "Failed to fetch")
  ELSE IF weatherRes # "ok" THEN Threw("forecast-status", "Weather service unavailable")
  ELSE IF ~wParses THEN Threw("forecast-body", "Unexpected token")
  ELSE IF marineRes = "ok" /\ ~mParses THEN Threw("marine-body", "Unexpected token")
  ELSE LET marineData == IF marineRes = "ok" THEN m ELSE NullMarine
       IN  IF (IF v = "earlier" THEN NormalizeThrowsEarlier(w) ELSE NormalizeThrowsLater(w))
           THEN Threw("normalize", "Cannot read properties of undefined")
           ELSE IF TidesThrow(marineData)
           THEN Threw("tides", "Cannot read properties of undefined")
           ELSE [cause |-> "none", msg |-> "",
                 vm |-> << IF v = "earlier"
                           THEN ViewModelEarlier(lat, lng, formattedAddress, w, marineData, draw)
                           ELSE ViewModelLater(lat, lng, formattedAddress, w, marineData,
                                               currentHour) >>]

\* a plausible slip: the view-model built and stored as soon as the forecast
\* response is in, with the marine request still outstanding
ForecastSettleWritesEarly(l, outcome) ==
  /\ lookups[l].pc = "weather"
  /\ LET lk == [lookups[l] EXCEPT !.weatherRes = outcome]
         w == CHOOSE b \in ForecastBodies(variant) :
                IF variant = "earlier" THEN ~NormalizeThrowsEarlier(b)
                ELSE ~NormalizeThrowsLater(b)
         res == FetchOutcome(variant, lk.lat, lk.lng, lk.addr, outcome, "bad",
                             TRUE, w, TRUE, NullMarine, 0, 0)
     IN  IF outcome = "rejected"
         THEN /\ Fail(l, lk, "Failed to fetch")
              /\ UNCHANGED << data, writes >>
         ELSE /\ lookups' = [lookups EXCEPT ![l] =
                               [lk EXCEPT !.pc = "marine", !.marineRes = "pending",
                                          !.wrote = (outcome = "ok")]]
              /\ data' = IF outcome = "ok" THEN res.vm ELSE data
              /\ writes' = IF outcome = "ok" THEN Append(writes, Write(l, lk)) ELSE writes
              /\ UNCHANGED << error, loading >>
  /\ UNCHANGED << variant, sw, map, started, ui, probe >>

\* `await fetch(forecast)` settles; on a response (2xx or not) the marine
\* request goes out, on a rejection the function throws
ForecastSettle(l, outcome) ==
  /\ lookups[l].pc = "weather"
  /\ LET lk == [lookups[l] EXCEPT !.weatherRes = outcome]
     IN  IF outcome = "rejected"
         THEN Fail(l, lk, "Failed to fetch")
         ELSE /\ lookups' = [lookups EXCEPT ![l] =
                               [lk EXCEPT !.pc = "marine", !.marineRes = "pending"]]
              /\ UNCHANGED << error, loading >>
  /\ UNCHANGED << variant, sw, map, writes, data, started, ui, probe >>

\* a plausible slip: a guard that drops the response of any lookup but the
\* most recently issued one
MarineSettleLatestOnly(l, outcome, wParses, w, mParses, m, currentHour, draw) ==
  /\ lookups[l].pc = "marine"
  /\ LET lk == [lookups[l] EXCEPT !.marineRes = outcome]
         res == FetchOutcome(variant, lk.lat, lk.lng, lk.addr, lk.weatherRes, outcome,
                             wParses, w, mParses, m, currentHour, draw)
     IN  IF res.cause = "none"
         THEN /\ data' = IF l = started THEN res.vm ELSE data
              /\ loading' = FALSE
              /\ lookups' = [lookups EXCEPT ![l] =
                               [lk EXCEPT !.pc = "done", !.outcome = "ok",
                                          !.wrote = (l = started),
                                          !.lat = 0, !.lng = 0, !.addr = ""]]
              /\ writes' = IF l = started THEN Append(writes, Write(l, lk)) ELSE writes
              /\ UNCHANGED error
         ELSE /\ Fail(l, lk, res.msg)
              /\ UNCHANGED << data, writes >>
  /\ UNCHANGED << variant, sw, map, started, ui, probe >>

\* a plausible slip: a guard that keeps the view-model already stored
MarineSettleKeepsFirst(l, outcome, wParses, w, mParses, m, currentHour, draw) ==
  /\ lookups[l].pc = "marine"
  /\ LET lk == [lookups[l] EXCEPT !.marineRes = outcome]
         res == FetchOutcome(variant, lk.lat, lk.lng, lk.addr, lk.weatherRes, outcome,
                             wParses, w, mParses, m, currentHour, draw)
     IN  IF res.cause = "none"
         THEN /\ data' = IF data = <<>> THEN res.vm ELSE data
              /\ loading' = FALSE
              /\ lookups' = [lookups EXCEPT ![l] =
                               [lk EXCEPT !.pc = "done", !.outcome = "ok", !.wrote = TRUE,
                                          !.lat = 0, !.lng = 0, !.addr = ""]]
              /\ writes' = Append(writes, Write(l, lk))
              /\ UNCHANGED error
         ELSE /\ Fail(l, lk, res.msg)
              /\ UNCHANGED << data, writes >>
  /\ UNCHANGED << variant, sw, map, started, ui, probe >>

\* `await fetch(marine)` settles and the function runs to its end
MarineSettle(l, outcome, wParses, w, mParses, m, currentHour, draw) ==
  /\ lookups[l].pc = "marine"
  /\ LET lk == [lookups[l] EXCEPT !.marineRes = outcome]
         res == FetchOutcome(variant, lk.lat, lk.lng, lk.addr, lk.weatherRes, outcome,
                             wParses, w, mParses, m, currentHour, draw)
     IN  IF res.cause = "none"
         THEN /\ data' = res.vm
              /\ loading' = FALSE
              /\ lookups' = [lookups EXCEPT ![l] =
                               [lk EXCEPT !.pc = "done", !.outcome = "ok", !.wrote = TRUE,
                                          !.lat = 0, !.lng = 0, !.addr = ""]]
              /\ writes' = Append(writes, Write(l, lk))
              /\ UNCHANGED error
         ELSE /\ Fail(l, lk, res.msg)
              /\ UNCHANGED << data, writes >>
  /\ UNCHANGED << variant, sw, map, started, ui, probe >>

(* ----------------------------- specification --------------------------- *)

\* the bodies the application's behaviours draw from
AppForecastBodies(v) ==
  IF v = "earlier"
  THEN { Forecast(TRUE, Num(120), Undefined, TRUE, Arr(<<Num(500)>>),
                  Arr(<<Num(10), Num(70)>>), Absent, Absent),
         Forecast(TRUE, Num(0), Undefined, FALSE, Absent, Absent, Absent, Absent) }
  ELSE { Forecast(TRUE, Num(120), Num(120), TRUE, Absent, Arr(<<Num(10), Num(70)>>),
                  Arr(<<Num(3), Num(9)>>), Arr(<<Num(0), Num(5)>>)),
         Forecast(TRUE, Num(0), Undefined, FALSE, Absent, Absent, Absent, Absent) }

AppMarineBodies ==
  { Marine(FALSE, Absent, Absent),
    Marine(TRUE, Arr(<<Iso(1, 1005), Iso(2, 15), Iso(2, 700)>>), Arr(<<Iso(1, 615)>>)) }

\* a response body: one that json() parses to an element of S, or one it rejects
Bodies(S) ==
  {[parses |-> TRUE, body |-> b] : b \in S}
  \cup {[parses |-> FALSE, body |-> CHOOSE b \in S : TRUE]}

\* new Date().getHours() is read by the later variant only
ClockHours(v) == IF v = "later" THEN Hours ELSE {0}

\* Math.random() is called by the earlier variant only
Draws(v, S) == IF v = "earlier" THEN S ELSE {0}

Next ==
  \/ \E value \in Typed : handleInputChange(value)
  \/ DebounceFire
  \/ \E i \in 1..MaxSugReqs, outcome \in {"ok", "bad", "rejected"}, results \in SuggestResults :
       SuggestSettle(i, outcome, results)
  \/ handleSearch
  \/ \E l \in Lookups, outcome \in {"ok", "bad", "rejected"}, gb \in Bodies(GeoResults) :
       GeocodeSettle(l, outcome, gb.parses, gb.body)
  \/ \E s \in UNION { {r[i] : i \in 1..Len(r)} : r \in {suggestions} } :
       handleSuggestionClick(s)
  \/ \E l \in Lookups, outcome \in {"ok", "bad", "rejected"} : ForecastSettle(l, outcome)
  \/ \E l \in Lookups, outcome \in {"ok", "bad", "rejected"},
        wb \in Bodies(AppForecastBodies(variant)), mb \in Bodies(AppMarineBodies),
        currentHour \in ClockHours(variant), draw \in Draws(variant, DrawSample) :
       MarineSettle(l, outcome, wb.parses, wb.body, mb.parses, mb.body, currentHour, draw)

Spec == Init /\ [][Next]_vars

\* the network answers lookup l: whichever of its requests is out settles
Settle(l) ==
  \/ \E outcome \in {"ok", "bad", "rejected"}, gb \in Bodies(GeoResults) :
       GeocodeSettle(l, outcome, gb.parses, gb.body)
  \/ \E outcome \in {"ok", "bad", "rejected"} : ForecastSettle(l, outcome)
  \/ \E outcome \in {"ok", "bad", "rejected"},
        wb \in Bodies(AppForecastBodies(variant)), mb \in Bodies(AppMarineBodies),
        currentHour \in ClockHours(variant), draw \in Draws(variant, DrawSample) :
       MarineSettle(l, outcome, wb.parses, wb.body, mb.parses, mb.body, currentHour, draw)

\* the search box after the user has typed "le" and the suggestion request
\* for it has been answered: the dropdown is open
LookupInit ==
  /\ variant \in {"earlier", "later"}
  /\ address = "le"
  /\ suggestions = IF variant = "earlier" THEN << PlaceCentre, PlaceNorth >>
                   ELSE Slice(UniqueResults(<< PlaceCentre, PlaceNorth >>, {}), 5)
  /\ showSuggestions = TRUE
  /\ loading = FALSE
  /\ error = <<>>
  /\ data = <<>>
  /\ lookups = [l \in Lookups |-> IdleLookup]
  /\ started = 0
  /\ timer = <<>>
  /\ sugReqs = <<>>
  /\ writes = <<>>
  /\ map = NoMap
  /\ sw = NoWorker
  /\ probe = NoProbe

\* the lookups alone: submits, suggestion clicks and the answers of the network
LookupNext ==
  \/ handleSearch
  \/ \E s \in UNION { {r[i] : i \in 1..Len(r)} : r \in {suggestions} } :
       handleSuggestionClick(s)
  \/ \E l \in Lookups : Settle(l)

\* the lookups under the assumption that every request of a lookup is answered
\* or fails in the end: a fetch promise always settles
LookupFairSpec ==
  LookupInit /\ [][LookupNext]_vars /\ \A l \in Lookups : WF_vars(Settle(l))

(* ------------- one run of fetchEnvironmentalData on its own ------------ *)

app == << variant, address, suggestions, showSuggestions, loading, error, data,
          lookups, started, timer, sugReqs, writes, sw, map >>

Pending == Threw("pending", "")

\* the inputs of one run: where it was asked for, how the two requests settle,
\* the two bodies, the clock and the random draw
DeriveInit ==
  /\ AppInit
  /\ sw = NoWorker
  /\ probe \in
       { [fn |-> "derive", place |-> p, weatherRes |-> wr, marineRes |-> mr, wb |-> wb,
          mb |-> mb, currentHour |-> h, draw |-> d, out |-> Pending] :
           p \in {PlaceCentre}, wr \in {"ok", "bad"}, mr \in {"ok", "bad", "rejected"},
           wb \in Bodies(ForecastBodies(variant)), mb \in Bodies(MarineBodies),
           h \in ClockHours(variant), d \in Draws(variant, DrawSample) }

Derive ==
  /\ probe.fn = "derive"
  /\ probe.out = Pending
  /\ probe' = [probe EXCEPT !.out =
                 FetchOutcome(variant, probe.place.lat, probe.place.lon,
                              formatAddress(variant, probe.place.address),
                              probe.weatherRes, probe.marineRes,
                              probe.wb.parses, probe.wb.body,
                              probe.mb.parses, probe.mb.body,
                              probe.currentHour, probe.draw)]
  /\ UNCHANGED app

DeriveSpec == DeriveInit /\ [][Derive]_vars

(* -------------------------- flood risk on its own ---------------------- *)

\* rain in tenths of a millimetre, on both sides of every threshold
FloodRains == {0, 2, 50, 52, 60, 62, 100, 102, 150, 152, 160, 162, 300, 302, 400}
\* soil moisture in thousandths
FloodSoils == {0, 350, 351, 450, 451, 500}

NoFlood == [level |-> "none", score |-> 0, soilMoisture |-> 0,
            canalLevel |-> ToFixed2(0), warningThreshold |-> 0]

\* two evaluations side by side, to compare the results of two inputs
FloodInit ==
  /\ AppInit
  /\ sw = NoWorker
  /\ variant = "earlier"
  /\ probe \in
       { [fn |-> "flood", rain |-> r, soil |-> sm, rain2 |-> r2, soil2 |-> sm2,
          computed |-> FALSE, out |-> NoFlood, out2 |-> NoFlood] :
           r \in FloodRains, sm \in FloodSoils, r2 \in FloodRains, sm2 \in FloodSoils }

ComputeFlood ==
  /\ probe.fn = "flood"
  /\ ~probe.computed
  /\ probe' = [probe EXCEPT !.computed = TRUE,
                            !.out = FloodRisk(probe.rain, probe.soil),
                            !.out2 = FloodRisk(probe.rain2, probe.soil2)]
  /\ UNCHANGED app

FloodSpec == FloodInit /\ [][ComputeFlood]_vars

(* ---------------------------- traffic on its own ----------------------- *)

\* Math.floor(Math.random() * 30) ranges over 0..29
RandomDraws == 0..29

NoTraffic == [congestion |-> 0, status |-> "none", avgSpeed |-> 0, incidents |-> 0]

TrafficInit ==
  /\ AppInit
  /\ sw = NoWorker
  /\ variant = "earlier"
  /\ probe \in
       { [fn |-> "traffic", rain |-> r, draw |-> d, computed |-> FALSE, out |-> NoTraffic] :
           r \in FloodRains, d \in RandomDraws }

ComputeTraffic ==
  /\ probe.fn = "traffic"
  /\ ~probe.computed
  /\ probe' = [probe EXCEPT !.computed = TRUE,
                            !.out = generateTrafficReport(probe.rain, probe.draw)]
  /\ UNCHANGED app

TrafficSpec == TrafficInit /\ [][ComputeTraffic]_vars

(* --------------------------- the service worker ------------------------ *)

\* the two scripts: "v107" is src/service-worker.js lines 1-62, "v11" is
\* src/unnamed/part_000
Workers == {"v107", "v11"}

CACHE_NAME(w) == IF w = "v107" THEN "stay-dry-hcmc-v107" ELSE "stay-dry-hcmc-v11"

urlsToCache(w) ==
  { "/", "/index.html", "/manifest.json",
    "https://unpkg.com/leaflet@1.9.4/dist/leaflet.css",
    "https://unpkg.com/leaflet@1.9.4/dist/leaflet.js" }
  \cup (IF w = "v107" THEN { "/logo.png" } ELSE {})

cacheWhitelist(w) == { CACHE_NAME(w) }

\* a plausible slip: the whitelist test inverted or dropped
DoomedAll(w, cacheNames) == cacheNames

\* the cache names for which the activate handler calls caches.delete
Doomed(w, cacheNames) == { cacheName \in cacheNames : cacheName \notin cacheWhitelist(w) }

\* releases of the site the server can be serving
MaxVersion == 2

\* a cache: the URLs it holds and the release they were fetched from
Cache(urls, version) == [urls |-> urls, version |-> version]

\* the caches earlier versions of the worker left behind
OldCacheNames(w) ==
  IF w = "v107" THEN { "stay-dry-hcmc-v11", "stay-dry-hcmc-v106" }
  ELSE { "stay-dry-hcmc-v1", "stay-dry-hcmc-v10" }

OldCache == Cache({ "/", "/index.html" }, 0)

\* caches.delete(cacheName)
Without(caches, cacheName) == [n \in DOMAIN caches \ { cacheName } |-> caches[n]]

\* caches.open(cacheName) followed by a put of `cache`
With(caches, cacheName, cache) ==
  [n \in DOMAIN caches \cup { cacheName } |-> IF n = cacheName THEN cache ELSE caches[n]]

\* the requests a controlled page makes
Request(url, mode) == [url |-> url, mode |-> mode]

Requests ==
  { Request("/", "navigate"), Request("/index.html", "navigate"),
    Request("/manifest.json", "cors"), Request("/logo.png", "no-cors"),
    Request("https://api.open-meteo.com/v1/forecast", "cors") }

\* what respondWith was given: where the response came from ("network",
\* "cache", or "error" for a rejection or an undefined match), the cache key
\* and the release served, whether the handler called fetch, and the state of
\* the network and of the server when it ran
Response(request, source, key, version, fetched, online, deployed) ==
  [url |-> request.url, mode |-> request.mode, source |-> source, key |-> key,
   version |-> version, fetched |-> fetched, online |-> online, deployed |-> deployed]

NoResponse == Response(Request("", ""), "none", "", 0, FALSE, FALSE, 0)

\* fetch(event.request) as the response of the handler
FromNetwork(request, online, deployed) ==
  IF online THEN Response(request, "network", request.url, deployed, TRUE, online, deployed)
  ELSE Response(request, "error", "", 0, TRUE, online, deployed)

\* the caches in which caches.match(key) can find an entry
Matching(caches, key) == { n \in DOMAIN caches : key \in caches[n].urls }

\* caches.match(key).then(response => response || fetch(event.request)); hit is
\* the cache the match came from, or "miss"
CacheFirst(request, caches, hit, online, deployed) ==
  IF hit # "miss"
  THEN Response(request, "cache", request.url, caches[hit].version, FALSE, online, deployed)
  ELSE FromNetwork(request, online, deployed)

\* fetch(event.request).catch(() => caches.match('/index.html'))
NetworkFirst(request, caches, hit, online, deployed) ==
  IF online THEN FromNetwork(request, online, deployed)
  ELSE IF hit # "miss"
       THEN Response(request, "cache", "/index.html", caches[hit].version, TRUE, online, deployed)
       ELSE Response(request, "error", "", 0, TRUE, online, deployed)

\* the key the fetch listener looks up, if it looks anything up
MatchKey(w, request) ==
  IF w = "v107" /\ request.mode = "navigate" THEN "/index.html" ELSE request.url

\* the fetch listener of either script
fetchListener(w, request, caches, hit, online, deployed) ==
  IF w = "v107" /\ request.mode = "navigate"
  THEN NetworkFirst(request, caches, hit, online, deployed)
  ELSE CacheFirst(request, caches, hit, online, deployed)

page == << variant, address, suggestions, showSuggestions, loading, error, data,
           lookups, started, timer, sugReqs, writes, map, probe >>

\* the script has been registered and evaluated; older caches may exist
WorkerInit ==
  /\ AppInit
  /\ variant = "earlier"
  /\ probe = NoProbe
  /\ sw \in UNION { { [pc |-> "parsed", worker |-> w, caches |-> [n \in S |-> OldCache],
                       keys |-> {}, deleting |-> {}, online |-> o, deployed |-> 1,
                       last |-> NoResponse] :
                        S \in SUBSET (OldCacheNames(w) \cup { CACHE_NAME(w) }),
                        o \in BOOLEAN } : w \in Workers }

\* the install listener: the cache is opened and addAll fetches every URL; a
\* failed fetch rejects the waitUntil promise and the worker is discarded
install ==
  /\ sw.pc = "parsed"
  /\ LET name == CACHE_NAME(sw.worker)
     IN  IF sw.online
         THEN sw' = [sw EXCEPT !.pc = "installed",
                               !.caches = With(sw.caches, name,
                                               Cache(urlsToCache(sw.worker), sw.deployed))]
         ELSE sw' = [sw EXCEPT !.pc = "redundant",
                               !.caches = IF name \in DOMAIN sw.caches THEN sw.caches
                                          ELSE With(sw.caches, name, Cache({}, 0))]
  /\ UNCHANGED page

\* the activate listener up to the calls of caches.delete: caches.keys()
\* resolves and one delete is issued for each name outside the whitelist
activate ==
  /\ sw.pc = "installed"
  /\ sw' = [sw EXCEPT !.pc = "activating",
                      !.keys = DOMAIN sw.caches,
                      !.deleting = Doomed(sw.worker, DOMAIN sw.caches)]
  /\ UNCHANGED page

\* one caches.delete resolves
DeleteSettle(cacheName) ==
  /\ sw.pc = "activating"
  /\ cacheName \in sw.deleting
  /\ sw' = [sw EXCEPT !.caches = Without(sw.caches, cacheName),
                      !.deleting = sw.deleting \ { cacheName }]
  /\ UNCHANGED page

\* Promise.all resolves, and with it the promise passed to waitUntil
ActivateResolved ==
  /\ sw.pc = "activating"
  /\ sw.deleting = {}
  /\ sw' = [sw EXCEPT !.pc = "activated"]
  /\ UNCHANGED page

\* the server starts serving a new release of the site
Deploy ==
  /\ sw.pc # "none"
  /\ sw.deployed < MaxVersion
  /\ sw' = [sw EXCEPT !.deployed = sw.deployed + 1]
  /\ UNCHANGED page

\* the device goes offline or comes back online
Connectivity ==
  /\ sw.pc # "none"
  /\ sw' = [sw EXCEPT !.online = ~sw.online]
  /\ UNCHANGED page

\* a fetch event of a controlled page, handled by the active worker
FetchEvent(request, hit) ==
  /\ sw.pc = "activated"
  /\ LET found == Matching(sw.caches, MatchKey(sw.worker, request))
     IN  IF found = {} THEN hit = "miss" ELSE hit \in found
  /\ sw' = [sw EXCEPT !.last = fetchListener(sw.worker, request, sw.caches, hit,
                                             sw.online, sw.deployed)]
  /\ UNCHANGED page

AllCacheNames == UNION { OldCacheNames(w) \cup { CACHE_NAME(w) } : w \in Workers }

WorkerNext ==
  \/ install
  \/ activate
  \/ \E cacheName \in AllCacheNames : DeleteSettle(cacheName)
  \/ ActivateResolved
  \/ Deploy
  \/ Connectivity
  \/ \E request \in Requests, hit \in AllCacheNames \cup { "miss" } : FetchEvent(request, hit)

WorkerSpec == WorkerInit /\ [][WorkerNext]_vars

(* -------------------------------- the map ------------------------------ *)

\* runs of the map-update effect that draw
MaxRuns == 3

\* a layer added to the map: L.marker or L.circle at a point; id tells the
\* objects of successive runs apart
Layer(kind, id, lat, lng, dark) ==
  [kind |-> kind, id |-> id, lat |-> lat, lng |-> lng, dark |-> dark]

\* mapInstance.removeLayer(ref.current), when the ref is set
RemoveLayer(layers, ref) == IF ref = <<>> THEN layers ELSE layers \ { ref[1] }

\* the places successful lookups are made for, and the points clicked
MapPlaces == { PlaceCentre, PlaceCorner }
MapPoints == { <<1078, 10670>>, <<1050, 10650>> }

\* the view-model a successful lookup for `place` passes to setData
ViewModelAt(v, place) ==
  FetchOutcome(v, place.lat, place.lon, formatAddress(v, place.address), "ok", "bad", TRUE,
               CHOOSE b \in AppForecastBodies(v) : b.hasHourly, TRUE, NullMarine, 0, 0).vm

others == << variant, address, suggestions, showSuggestions, loading, error, lookups,
             started, timer, sugReqs, writes, sw, probe >>

\* the "Initialize Map" effect once Leaflet has loaded: setMapInstance(map)
InitializeMap ==
  /\ ~map.instance
  /\ map' = [map EXCEPT !.instance = TRUE, !.stale = TRUE]
  /\ UNCHANGED << data, others >>

\* the setData of a lookup that succeeded
LookupSucceeds(place) ==
  /\ data' = ViewModelAt(variant, place)
  /\ map' = [map EXCEPT !.stale = TRUE]
  /\ UNCHANGED others

\* the theme button: setIsDarkMode(!isDarkMode)
ToggleTheme ==
  /\ map' = [map EXCEPT !.isDarkMode = ~map.isDarkMode, !.stale = TRUE]
  /\ UNCHANGED << data, others >>

\* the pin button: setIsPinMode(!isPinMode)
TogglePinMode ==
  /\ map' = [map EXCEPT !.isPinMode = ~map.isPinMode]
  /\ UNCHANGED << data, others >>

\* a click on the map while pin mode is on; no listener is registered on the
\* map, so nothing but the record of the click changes
MapClick(point) ==
  /\ map.instance
  /\ map.isPinMode
  /\ map' = [map EXCEPT !.clicked = << point >>]
  /\ UNCHANGED << data, others >>

\* a plausible slip: the new layers added without removing the previous ones
UpdateMapNoRemove ==
  /\ map.stale
  /\ map.runs < MaxRuns
  /\ IF ~map.instance \/ data = <<>>
     THEN map' = [map EXCEPT !.stale = FALSE]
     ELSE LET lat == data[1].coords.lat
              lng == data[1].coords.lng
              newMarker == Layer("marker", map.runs + 1, lat, lng, FALSE)
              newCircle == Layer("circle", map.runs + 1, lat, lng, map.isDarkMode)
          IN  map' = [map EXCEPT !.layers = map.layers \cup { newMarker, newCircle },
                                 !.markerRef = << newMarker >>,
                                 !.circleRef = << newCircle >>,
                                 !.runs = map.runs + 1,
                                 !.stale = FALSE]
  /\ UNCHANGED << data, others >>

\* the "Update Map" effect, run after a render in which data, mapInstance or
\* isDarkMode changed
UpdateMap ==
  /\ map.stale
  /\ map.runs < MaxRuns
  /\ IF ~map.instance \/ data = <<>>
     THEN map' = [map EXCEPT !.stale = FALSE]
     ELSE LET lat == data[1].coords.lat
              lng == data[1].coords.lng
              cleared == RemoveLayer(RemoveLayer(map.layers, map.markerRef), map.circleRef)
              newMarker == Layer("marker", map.runs + 1, lat, lng, FALSE)
              newCircle == Layer("circle", map.runs + 1, lat, lng, map.isDarkMode)
          IN  map' = [map EXCEPT !.layers = cleared \cup { newMarker, newCircle },
                                 !.markerRef = << newMarker >>,
                                 !.circleRef = << newCircle >>,
                                 !.runs = map.runs + 1,
                                 !.stale = FALSE]
  /\ UNCHANGED << data, others >>

MapInit ==
  /\ AppInit
  /\ sw = NoWorker
  /\ probe = NoProbe

MapNext ==
  \/ InitializeMap
  \/ \E place \in MapPlaces : LookupSucceeds(place)
  \/ ToggleTheme
  \/ TogglePinMode
  \/ \E point \in MapPoints : MapClick(point)
  \/ UpdateMap

MapSpec == MapInit /\ [][MapNext]_vars

(* ================================ claims =============================== *)

Derived == probe.fn = "derive" /\ probe.out # Pending
Wrote == Derived /\ probe.out.cause = "none"

\* the forecast response is 2xx, its body parses and holds what the run reads
ForecastUsable ==
  /\ probe.weatherRes = "ok"
  /\ probe.wb.parses
  /\ ~(IF variant = "earlier" THEN NormalizeThrowsEarlier(probe.wb.body)
       ELSE NormalizeThrowsLater(probe.wb.body))

\* the marine request ended in a non-2xx response, a rejection or an unparsable body
MarineFailed ==
  \/ probe.marineRes \in {"bad", "rejected"}
  \/ probe.marineRes = "ok" /\ ~probe.mb.parses

\* the fallback sequence as the documentation lists it: type and clock time
FallbackSchedule ==
  << <<"High", Clock(4, 30, "AM")>>, <<"Low", Clock(10, 15, "AM")>>,
     <<"High", Clock(5, 45, "PM")>>, <<"Low", Clock(11, 30, "PM")>> >>

Schedule(tides) == [i \in 1..Len(tides) |-> <<tides[i].type, tides[i].time>>]

\* C1: with a usable 2xx forecast, a run whose marine request ends in a non-2xx
\* response, a rejection or an unparsable body still reaches setData, with the
\* fallback tides, and throws nothing to its caller.
C1_MarineFailureFallsBack ==
  (Derived /\ ForecastUsable /\ MarineFailed)
    => /\ probe.out.cause = "none"
       /\ probe.out.vm # <<>>
       /\ probe.out.vm[1].tides = FallbackTides(variant)

NewlyDone(l) == lookups[l].pc \in {"weather", "marine"} /\ lookups'[l].pc = "done"

\* C2: a lookup whose forecast request returns non-2xx or rejects ends in the
\* handler's catch block: it never called setData, data is what it was, error
\* holds a message and loading is false.
C2_ForecastFailureSetsError ==
  [][\A l \in Lookups :
       (NewlyDone(l) /\ lookups'[l].weatherRes \in {"bad", "rejected"})
         => /\ lookups'[l].outcome = "error"
            /\ ~lookups'[l].wrote
            /\ data' = data
            /\ error' # <<>>
            /\ loading' = FALSE]_vars

\* a second lookup failed on its forecast after a first one had stored a view-model
C2_Witness ==
  /\ data # <<>>
  /\ error # <<>>
  /\ ~loading
  /\ \E l \in Lookups : /\ lookups[l].pc = "done"
                        /\ lookups[l].weatherRes \in {"bad", "rejected"}
                        /\ lookups[l].outcome = "error"
                        /\ ~lookups[l].wrote

\* C3: setData runs only in a step of a lookup whose forecast and marine
\* requests have both settled; data changes in no other step.
C3_WriteAfterBothSettle ==
  [][/\ \A l \in Lookups :
          (~lookups[l].wrote /\ lookups'[l].wrote)
            => Settled(lookups'[l].weatherRes) /\ Settled(lookups'[l].marineRes)
     /\ (data' # data) => \E l \in Lookups : ~lookups[l].wrote /\ lookups'[l].wrote]_vars

C3_Witness ==
  \E l \in Lookups : /\ lookups[l].wrote
                     /\ lookups[l].weatherRes = "ok"
                     /\ lookups[l].marineRes = "bad"
                     /\ data # <<>>

\* the marine response is non-2xx (marineData is null) or parses without `daily`
NoDaily ==
  \/ probe.marineRes = "bad"
  \/ probe.marineRes = "ok" /\ probe.mb.parses /\ ~probe.mb.body.hasDaily

\* C4: a view-model built from a marine response that is non-2xx or has no
\* `daily` field carries the variant's fallback tides: four entries, High
\* 04:30 AM, Low 10:15 AM, High 05:45 PM, Low 11:30 PM.
C4_NoDailyGivesFallback ==
  (Wrote /\ NoDaily)
    => /\ probe.out.vm[1].tides = FallbackTides(variant)
       /\ Len(probe.out.vm[1].tides) = 4
       /\ Schedule(probe.out.vm[1].tides) = FallbackSchedule

C4_Witness ==
  /\ Wrote
  /\ variant = "earlier"
  /\ probe.marineRes = "ok" /\ probe.mb.parses /\ ~probe.mb.body.hasDaily
  /\ Schedule(probe.out.vm[1].tides) = FallbackSchedule

EmptyDaily ==
  /\ probe.marineRes = "ok" /\ probe.mb.parses /\ probe.mb.body.hasDaily
  /\ probe.mb.body.tide_high = Arr(<<>>)
  /\ probe.mb.body.tide_low = Arr(<<>>)

\* C5: a marine response whose daily arrays are both empty gives the fallback
\* tides, and no view-model has an empty tide list.
C5_EmptyDailyGivesFallback ==
  /\ (Wrote /\ EmptyDaily) => probe.out.vm[1].tides = FallbackTides(variant)
  /\ Wrote => Len(probe.out.vm[1].tides) > 0

\* C6: a view-model built from a forecast whose hourly object has no
\* precipitation_probability has nextHourProb 0, not undefined.
C6_MissingProbabilityIsZero ==
  (Wrote /\ ~probe.wb.body.precipitation_probability.present)
    => probe.out.vm[1].weather.nextHourProb = Num(0)

C6_Witness ==
  /\ Wrote
  /\ variant = "later"
  /\ ~probe.wb.body.precipitation_probability.present
  /\ probe.out.vm[1].weather.nextHourProb = Num(0)

Computed(fn) == probe.fn = fn /\ probe.computed

\* 1 when the condition holds, else 0
Bracket(cond) == IF cond THEN 1 ELSE 0

\* C7: the flood score is the sum of the seven threshold bonuses, with canal
\* level 1.2 + 0.05 * rain; rain 40 mm and soil moisture 0.5 score at least 85.
C7_FloodScoreFormula ==
  Computed("flood") =>
    LET r == probe.rain
        sm == probe.soil
        c == 1200 + 5 * r
    IN  /\ probe.out.score =
             15 * Bracket(sm > 350) + 15 * Bracket(sm > 450)
             + 10 * Bracket(r > 50) + 10 * Bracket(r > 150) + 10 * Bracket(r > 300)
             + 15 * Bracket(c > 1500) + 25 * Bracket(c > 2000)
        /\ (r = 400 /\ sm = 500) => probe.out.score >= 85

C7_Witness ==
  /\ Computed("flood")
  /\ probe.rain = 400 /\ probe.soil = 500
  /\ probe.out.score = 100

\* C8: the level is Critical iff score > 80, High iff 50 < score <= 80,
\* Moderate iff 30 < score <= 50, Low otherwise; no rain and dry soil give
\* canal level '1.20' and level Low.
C8_FloodLevelLadder ==
  Computed("flood") =>
    LET sc == probe.out.score
        lv == probe.out.level
    IN  /\ (lv = "Critical") <=> (sc > 80)
        /\ (lv = "High") <=> (50 < sc /\ sc <= 80)
        /\ (lv = "Moderate") <=> (30 < sc /\ sc <= 50)
        /\ (lv = "Low") <=> (sc <= 30)
        /\ (probe.rain = 0 /\ probe.soil = 0)
             => probe.out.canalLevel = [int |-> 1, frac |-> 20] /\ lv = "Low"

C8_Witness ==
  /\ Computed("flood")
  /\ probe.rain = 0 /\ probe.soil = 0
  /\ probe.out.level = "Low"
  /\ probe.out.canalLevel = [int |-> 1, frac |-> 20]
  /\ probe.out2.score = 30 /\ probe.out2.level = "Low"

LevelRank(lv) ==
  IF lv = "Low" THEN 0 ELSE IF lv = "Moderate" THEN 1 ELSE IF lv = "High" THEN 2 ELSE 3

\* C9: raising rain with soil moisture fixed, or soil moisture with rain
\* fixed, lowers neither the flood score nor the flood level.
C9_FloodMonotone ==
  (Computed("flood") /\ probe.rain <= probe.rain2 /\ probe.soil <= probe.soil2
     /\ (probe.rain = probe.rain2 \/ probe.soil = probe.soil2))
    => /\ probe.out.score <= probe.out2.score
       /\ LevelRank(probe.out.level) <= LevelRank(probe.out2.level)

C9_Witness ==
  /\ Computed("flood")
  /\ probe.rain = 300 /\ probe.rain2 = 302 /\ probe.soil = probe.soil2
  /\ probe.out.score < probe.out2.score
  /\ LevelRank(probe.out.level) < LevelRank(probe.out2.level)

\* C10: whatever the random draw and the rain, the congestion of the traffic
\* report lies in 10..100.
C10_CongestionInRange ==
  Computed("traffic") => probe.out.congestion >= 10 /\ probe.out.congestion <= 100

C10_Witness ==
  /\ Computed("traffic")
  /\ probe.rain > 0 /\ probe.draw = 29
  /\ probe.out.congestion = 59

\* the news list of the stored view-model, and its entries of one type
NewsOf == probe.out.vm[1].news
HasNews(type) == \E i \in 1..Len(NewsOf) : NewsOf[i].type = type

\* C11: in both variants the news list of a view-model holds the rain advisory
\* (the 'warning' entry) exactly when its rain is above 10 mm or its next-hour
\* rain probability is above 60 %.
C11_RainAdvisoryIff ==
  Wrote =>
    (HasNews("warning")
       <=> (probe.out.vm[1].weather.rain > 100
            \/ Gt(probe.out.vm[1].weather.nextHourProb, 60)))

TrafficPortal == "https://giaothong.hochiminhcity.gov.vn/"
FloodControl == "https://phongchongthientai.hochiminhcity.gov.vn/"

\* C12: the news list of every view-model is non-empty and starts with the
\* link to the official traffic portal; in the earlier variant the
\* flood-control alert is in the list exactly when flood.level is High or Critical.
C12_PortalFirstAlertIffHigh ==
  Wrote =>
    /\ Len(NewsOf) > 0
    /\ NewsOf[1].url = TrafficPortal
    /\ variant = "earlier"
         => ((\E i \in 1..Len(NewsOf) : NewsOf[i].type = "alert" /\ NewsOf[i].url = FloodControl)
              <=> probe.out.vm[1].flood[1].level \in {"High", "Critical"})

C12_Witness ==
  /\ Wrote
  /\ variant = "earlier"
  /\ probe.out.vm[1].flood[1].level = "High"
  /\ Len(NewsOf) = 3
  /\ NewsOf[1].url = TrafficPortal
  /\ NewsOf[2].type = "alert" /\ NewsOf[2].url = FloodControl

\* a lookup whose forecast or marine request is out
Requesting(l) == lookups[l].pc \in {"weather", "marine"}

\* C13: a lookup whose geocoder result is empty or lies outside the HCMC box
\* ends in error with no forecast or marine request issued: every lookup with
\* a request out has coordinates inside the box, and so has every stored
\* view-model.
C13_OnlyInsideBoxFetched ==
  /\ \A l \in Lookups :
       Requesting(l) => ~OutsideBounds(lookups[l].lat, lookups[l].lng)
  /\ data # <<>> => ~OutsideBounds(data[1].coords.lat, data[1].coords.lng)

\* the lookups that have called setData, in order
Writers == [i \in 1..Len(writes) |-> writes[i].lookup]

\* the view-model in the data slot is the one lookup l built
HoldsResultOf(l) ==
  /\ data' # <<>>
  /\ data'[1].location = lookups[l].addr
  /\ data'[1].coords = [lat |-> lookups[l].lat, lng |-> lookups[l].lng]

\* C14: starting a lookup, or settling one, leaves every other lookup in
\* flight as it was (nothing is cancelled), and every lookup that reaches its
\* setData stores its own view-model whether or not a later lookup has been
\* issued or has already written: the last write wins.
C14_LastWriteWins ==
  [][/\ \A l, k \in Lookups :
          (l # k /\ lookups'[l] # lookups[l] /\ InFlight(k)) => lookups'[k] = lookups[k]
     /\ \A l \in Lookups :
          (InFlight(l) /\ lookups'[l].outcome = "ok")
            => HoldsResultOf(l) /\ writes' = Append(writes, Write(l, lookups[l]))]_vars

\* the second lookup was issued while the first was in flight and wrote
\* first; the first wrote last and its view-model is what data holds
C14_Witness ==
  /\ Writers = <<2, 1>>
  /\ \A l \in Lookups : lookups[l].pc = "done" /\ lookups[l].wrote
  /\ data # <<>>
  /\ ~loading

\* C15: at most one suggestion timeout is pending at any time; a keystroke
\* replaces the pending timeout by one for the value it leaves in the box, or
\* by none when that value is blank; a request is issued only by the pending
\* timeout firing, once, for the value of the keystroke that set it.
C15_SingleDebounceTimer ==
  [][/\ Len(timer') <= 1
     /\ (timer' # timer /\ sugReqs' = sugReqs)
          => timer' = IF Blank(address') THEN <<>> ELSE << Timeout(address', TRUE) >>
     /\ Len(sugReqs') > Len(sugReqs)
          => /\ Len(timer) = 1
             /\ timer' = <<>>
             /\ sugReqs' = Append(sugReqs, timer[1].value)]_vars

\* the request for "le" is out, the box has since been retyped, and the only
\* pending timeout is the one of the last keystroke
C15_Witness ==
  /\ sugReqs = << "le" >>
  /\ address = "le loi"
  /\ timer = << Timeout("le loi", TRUE) >>

\* C16: loading is never true with no lookup in flight; every lookup in flight
\* reaches the end of its handler, and whenever loading is true it is false
\* again later, whichever path the lookup takes.
C16_LoadingEventuallyClears ==
  /\ [](NoneInFlight => ~loading)
  /\ \A l \in Lookups : InFlight(l) ~> (lookups[l].pc = "done")
  /\ loading ~> ~loading

\* a lookup ended in its catch block after a throw while deriving the
\* view-model, and loading is false
C16_Witness ==
  /\ ~loading
  /\ NoneInFlight
  /\ error = << "Cannot read properties of undefined" >>
  /\ \E l \in Lookups : lookups[l].pc = "done" /\ lookups[l].outcome = "error"
                         /\ lookups[l].weatherRes = "ok"

\* C17: once the promise passed to waitUntil in the activate listener has
\* resolved, every cache that existed when activation began under a name other
\* than CACHE_NAME is gone, and the cache named CACHE_NAME is still there.
C17_ActivateDeletesOldCaches ==
  sw.pc = "activated"
    => /\ \A n \in sw.keys : n # CACHE_NAME(sw.worker) => n \notin DOMAIN sw.caches
       /\ CACHE_NAME(sw.worker) \in DOMAIN sw.caches

\* the v107 worker activated over the caches of two earlier versions
C17_Witness ==
  /\ sw.pc = "activated"
  /\ sw.worker = "v107"
  /\ sw.keys = { "stay-dry-hcmc-v11", "stay-dry-hcmc-v106", "stay-dry-hcmc-v107" }
  /\ DOMAIN sw.caches = { "stay-dry-hcmc-v107" }

Handled == sw.pc = "activated" /\ sw.last.source # "none"

\* C18: a navigation request is answered from the network whenever the
\* network is reachable, and from the cache only when the network fetch
\* rejects, then with the cached /index.html.
C18_NavigationNetworkFirst ==
  (Handled /\ sw.last.mode = "navigate")
    => /\ sw.last.online => sw.last.source = "network"
       /\ sw.last.source = "cache"
            => ~sw.last.online /\ sw.last.fetched /\ sw.last.key = "/index.html"

\* C19: a non-navigation request found in the cache is answered from the
\* cache and a network request is made as well, whose response replaces the
\* cached entry: when the network is reachable the cache then holds the
\* release the server was serving.
C19_StaleWhileRevalidate ==
  (Handled /\ sw.last.mode # "navigate" /\ sw.last.source = "cache")
    => /\ sw.last.fetched
       /\ sw.last.online
            => \E n \in DOMAIN sw.caches : /\ sw.last.url \in sw.caches[n].urls
                                            /\ sw.caches[n].version >= sw.last.deployed

\* the index of the next hour in the hourly arrays
NextHourIndex == IF variant = "earlier" THEN 1 ELSE probe.currentHour + 1

\* the array is in the forecast but has no element at the next-hour index
Short(arr) == arr.present /\ Len(arr.items) <= NextHourIndex

\* C20: a view-model built from a forecast whose precipitation_probability
\* array (or, in the later variant, precipitation array) is present but too
\* short to have a next-hour element has nextHourProb (nextHourAmount) 0, not
\* undefined.
C20_ShortArrayGivesZero ==
  Wrote =>
    /\ Short(probe.wb.body.precipitation_probability)
         => probe.out.vm[1].weather.nextHourProb = Num(0)
    /\ (variant = "later" /\ Short(probe.wb.body.precipitation))
         => probe.out.vm[1].weather.nextHourAmount = Num(0)

\* a number that the response does not carry is stored as 0
Defaulted(source, stored) == source = Undefined => stored = Num(0)

\* arr[i] of an hourly array that may be missing altogether
Element(arr, i) == IF arr.present THEN Index(arr, i) ELSE Undefined

\* C21: in every view-model each numeric weather field whose source is absent
\* from the forecast response is 0: temperature, apparent temperature,
\* humidity, rain, wind speed, weather code, UV index, US AQI and the
\* next-hour figures.
C21_AbsentFieldsAreZero ==
  Wrote =>
    LET w == probe.wb.body
        weather == probe.out.vm[1].weather
    IN  /\ Defaulted(w.temperature_2m, weather.temp)
        /\ Defaulted(w.apparent_temperature, weather.feelsLike)
        /\ Defaulted(w.relative_humidity_2m, weather.humidity)
        /\ Defaulted(w.weather_code, weather.code)
        /\ Defaulted(w.rain, Num(weather.rain))
        /\ Defaulted(Element(w.precipitation_probability, NextHourIndex), weather.nextHourProb)
        /\ variant = "earlier" => Defaulted(w.wind_speed_10m, weather.wind)
        /\ variant = "later"
             => /\ Defaulted(w.us_aqi, weather.aqi)
                /\ Defaulted(Element(w.uv_index, probe.currentHour), weather.uv)
                /\ Defaulted(Element(w.precipitation, NextHourIndex), weather.nextHourAmount)

\* the marine body whose daily arrays the tides block reads and formats
BuiltFromMarine ==
  /\ Wrote
  /\ probe.marineRes = "ok" /\ probe.mb.parses /\ probe.mb.body.hasDaily
  /\ variant = "later"
       => /\ probe.mb.body.tide_high.items # <<>>
          /\ probe.mb.body.tide_low.items # <<>>

\* minutes after midnight of a 12-hour clock reading
TimeOfDay(t) == (IF t.h = 12 THEN 0 ELSE t.h) * 60 + t.m + (IF t.ap = "PM" THEN 720 ELSE 0)

\* the positions of the entries of one type, and the clock readings of the
\* first two timestamps of a daily array
OfType(tides, type) == { i \in 1..Len(tides) : tides[i].type = type }
FirstTwo(arr) == { formatTime(arr.items[i]) : i \in 1..Min(2, Len(arr.items)) }

\* C22: tides built from the marine response hold at most two High and two
\* Low entries, those of the first two timestamps of each array, in ascending
\* order of the time of day of their clock strings, and of two entries with the
\* same time a High comes before a Low.
C22_TidesSortedFirstTwo ==
  BuiltFromMarine =>
    LET tides == probe.out.vm[1].tides
        daily == probe.mb.body
    IN  /\ Cardinality(OfType(tides, "High")) = Min(2, Len(daily.tide_high.items))
        /\ Cardinality(OfType(tides, "Low")) = Min(2, Len(daily.tide_low.items))
        /\ { tides[i].time : i \in OfType(tides, "High") } = FirstTwo(daily.tide_high)
        /\ { tides[i].time : i \in OfType(tides, "Low") } = FirstTwo(daily.tide_low)
        /\ \A i, j \in 1..Len(tides) :
             i < j => /\ TimeOfDay(tides[i].time) <= TimeOfDay(tides[j].time)
                      /\ TimeOfDay(tides[i].time) = TimeOfDay(tides[j].time)
                           => ~(tides[i].type = "Low" /\ tides[j].type = "High")

\* three timestamps of highs cut to two, a high and a low both at 12:15 AM,
\* the high first
C22_Witness ==
  /\ BuiltFromMarine
  /\ Len(probe.mb.body.tide_high.items) = 3
  /\ Len(probe.out.vm[1].tides) = 4
  /\ probe.out.vm[1].tides[1] = Tide("High", Clock(12, 15, "AM"), "3.5m")
  /\ probe.out.vm[1].tides[2] = Tide("Low", Clock(12, 15, "AM"), "1.1m")
  /\ probe.out.vm[1].tides[4].time = Clock(11, 0, "PM")

LayersOf(kind) == { layer \in map.layers : layer.kind = kind }

AtCoords(layer) == layer.lat = data[1].coords.lat /\ layer.lng = data[1].coords.lng

\* C23: the map never holds more than one location marker or more than one
\* radius circle; once the map-update effect has run for the current data
\* there is exactly one of each, at data.coords; and no layer of before a run
\* of the effect is on the map after it.
C23_OneMarkerOneCircle ==
  /\ [](/\ Cardinality(LayersOf("marker")) <= 1
        /\ Cardinality(LayersOf("circle")) <= 1
        /\ (map.instance /\ data # <<>> /\ ~map.stale)
             => /\ Cardinality(LayersOf("marker")) = 1
                /\ Cardinality(LayersOf("circle")) = 1
                /\ \A layer \in map.layers : AtCoords(layer))
  /\ [][map'.runs > map.runs => map'.layers \cap map.layers = {}]_vars

\* the effect has drawn three times, after lookups and a theme toggle, and
\* the map holds the marker and the dark-theme circle of the last run only
C23_Witness ==
  /\ map.runs = 3
  /\ ~map.stale
  /\ map.isDarkMode
  /\ data # <<>>
  /\ data[1].coords = [lat |-> 1035, lng |-> 10630]
  /\ map.layers = { Layer("marker", 3, 1035, 10630, FALSE),
                    Layer("circle", 3, 1035, 10630, TRUE) }

\* C24: a map click made while pin mode is on starts a lookup, as a search
\* submit and a suggestion click do: the step of the click issues the forecast
\* request of a new lookup for the point clicked.
C24_MapClickStartsLookup ==
  [][map'.clicked # map.clicked
       => /\ started' = started + 1
          /\ \E l \in Lookups : /\ lookups'[l].pc = "weather"
                                 /\ << lookups'[l].lat, lookups'[l].lng >> = map'.clicked[1]]_vars

\* every lookup issued has run to its end and stored its view-model
AllSucceeded ==
  /\ started > 0
  /\ \A l \in 1..started : lookups[l].pc = "done" /\ lookups[l].outcome = "ok"

\* C25 as stated: once every lookup has settled successfully, data is the
\* view-model of the most recently issued lookup.
C25_DataIsLatestIssued ==
  AllSucceeded => writes[Len(writes)].lookup = started

\* C25 as the code has it: data is the view-model of the lookup whose setData
\* ran last, for the place that lookup was made for, whether or not a later
\* lookup was issued before it.
C25_DataIsLastWritten ==
  /\ (data # <<>>) <=> (writes # <<>>)
  /\ writes # <<>>
       => LET last == writes[Len(writes)]
          IN  /\ data[1].location = last.addr
              /\ data[1].coords = [lat |-> last.lat, lng |-> last.lng]

\* the lookup issued first wrote last: data shows its place, not the place of
\* the lookup issued after it
C25_Witness ==
  /\ AllSucceeded
  /\ Writers = <<2, 1>>
  /\ writes[1].addr # writes[2].addr
  /\ data[1].location = writes[2].addr
  /\ data[1].location # writes[1].addr

\* C26: loading is true in every state in which a lookup is in flight.
C26_LoadingWhileInFlight ==
  (\E l \in Lookups : InFlight(l)) => loading

\* C27: when a lookup completes successfully and no lookup has failed since
\* it was started, error is null.  No other lookup was in flight when it
\* started and none has been started since, so none can have failed meanwhile.
C27_SuccessLeavesNoError ==
  [][\A l \in Lookups :
       (InFlight(l) /\ lookups'[l].outcome = "ok" /\ lookups[l].alone /\ started = l)
         => error' = <<>>]_vars

\* C28: once the dropdown has been hidden by clearing the input, it stays
\* hidden until the next keystroke.  The box is blank (!value.trim()) only
\* after handleInputChange has taken its clearing branch, and every keystroke
\* changes its content.
C28_HiddenStaysHidden ==
  [][(Blank(address) /\ ~showSuggestions /\ address' = address) => ~showSuggestions']_vars

\* C29: the synthesized congestion never exceeds 59, so the traffic status is
\* "Clear" or "Moderate", never "Heavy", and the incident count is 0.
C29_TrafficNeverHeavy ==
  Computed("traffic") =>
    /\ probe.out.congestion <= 59
    /\ probe.out.status \in {"Clear", "Moderate"}
    /\ probe.out.incidents = 0

\* the largest draw in rain: congestion 59, still "Moderate" with no incident
C29_Witness ==
  /\ Computed("traffic")
  /\ probe.draw = 29 /\ probe.rain = 400
  /\ probe.out.congestion = 59
  /\ probe.out.status = "Moderate"
  /\ probe.out.incidents = 0

\* C30: the flood score lies in 0..100; the level is "Critical" only when soil
\* moisture is above 0.35 and rain above 16 mm; with soil moisture at most
\* 0.35 the score is at most 70 and the level at most "High".
C30_CriticalNeedsWetSoil ==
  Computed("flood") =>
    /\ probe.out.score \in 0..100
    /\ probe.out.level = "Critical" => (probe.soil > 350 /\ probe.rain > 160)
    /\ probe.soil <= 350 =>
         (probe.out.score <= 70 /\ probe.out.level \in {"Low", "Moderate", "High"})

\* soil moisture exactly 0.35 under 40 mm of rain: every rain and canal bonus
\* and no soil bonus, score 70 and level "High"; just above both thresholds
\* the score is 75, and past 30 mm the level is "Critical"
C30_Witness ==
  /\ Computed("flood")
  /\ probe.soil = 350 /\ probe.rain = 400
  /\ probe.out.score = 70
  /\ probe.out.level = "High"
  /\ probe.soil2 = 351 /\ probe.rain2 = 162
  /\ probe.out2.score = 75
  /\ FloodRisk(302, 351).level = "Critical"

====
